---- MODULE Spec2Model ----
(***************************************************************************)
(* Execution, retry and transaction layer of reydb.                        *)
(*                                                                         *)
(*   DBConnection (src/src/reydb/rconn.py): a session bound to one         *)
(*   checked-out connection, with the transaction handle `begin` and the   *)
(*   mutation counter `begin_count`.                                       *)
(*   Database (src/src/reydb/rdb.py): the pool owner, whose execute()      *)
(*   acquires a connection for the duration of one call.                   *)
(*                                                                         *)
(* SQL text is a sequence of lexemes: a word (a maximal alphabetic run),   *)
(* the separator ";" or a blank.  An API call is given any text of         *)
(* SqlTexts; the call keeps the facts of the text (TextFacts), which is    *)
(* all the code reads of it.                                               *)
(*                                                                         *)
(* The database client is the environment: each connection.execute()       *)
(* either succeeds or raises an OperationalError (transient) or another    *)
(* error (statement/logic); a text runs as a whole or not at all;          *)
(* begin(), commit() and rollback() of the client succeed.  The report     *)
(* flag only prints and is left out.                                       *)
(***************************************************************************)
EXTENDS Integers, Sequences, FiniteSets, TLC

VARIABLES
    retry,        \* Database.retry, copied to DBConnection.retry
    begin,        \* DBConnection.begin: None or the open Transaction
    begin_count,  \* DBConnection.begin_count
    txOpen,       \* transactions begun on the session's connection, not ended
    txStmts,      \* <<transaction, call>>: statements with effects run in it
    durable,      \* calls whose statement's effects are committed
    undone,       \* calls whose statement's effects were rolled back
    pc,           \* "idle", or "retry" between two attempts of a wrapped call
    call,         \* the API call in progress, or the last one finished
    ncalls,       \* number of API calls made so far
    streak,       \* history: the calls since the session was created or last
                  \* committed/rolled back by the caller are all returned
                  \* execute() calls of one INSERT/UPDATE/DELETE statement:
                  \* their number; -1 when another call came in between
    since,        \* history: calls with effects whose session execute()
                  \* returned since the last commit()/rollback() call
    connection,   \* DBConnection.connection: "open" (checked out), "closed"
                  \* (released), "finalized" (released, the session is gone)
    thr,          \* the threads calling Database.execute, step by step
    pool,         \* the connections checked out of the engine's pool
    fn            \* the pure functions: their input and their results

\* The session's variables, but for retry.
sessvars == <<begin, begin_count, txOpen, txStmts, durable, undone,
              pc, call, ncalls, streak, since, connection>>

vars == <<retry, begin, begin_count, txOpen, txStmts, durable, undone,
          pc, call, ncalls, streak, since, connection, thr, pool, fn>>

----------------------------------------------------------------------------
(* Bounds of the model. *)

MaxSqlLen == 3
MaxCalls == 3
MaxDataRows == 2
MaxTextLen == 5

----------------------------------------------------------------------------
(* SQL text. *)

None == 0

Words == {"INSERT", "update", "SELECT", "REPLACE"}

Lexemes == Words \cup {";", " "}

\* str.upper() on a word.
Upper(w) == IF w = "update" THEN "UPDATE" ELSE w

\* Two words never touch: an alphabetic run is maximal.
WellLexed(s) == \A i \in 1..(Len(s) - 1) : ~(s[i] \in Words /\ s[i + 1] \in Words)

SqlTexts ==
    {s \in UNION {[1..k -> Lexemes] : k \in 0..MaxSqlLen} : WellLexed(s)}

\* str.split(';'): always at least one segment, empty segments kept.
RECURSIVE split(_)
split(s) ==
    IF \A i \in 1..Len(s) : s[i] # ";"
    THEN <<s>>
    ELSE LET i == CHOOSE k \in 1..Len(s) :
                      s[k] = ";" /\ \A j \in 1..(k - 1) : s[j] # ";"
         IN  <<SubSeq(s, 1, i - 1)>> \o split(SubSeq(s, i + 1, Len(s)))

\* search('[a-zA-Z]+', sql_part): the first alphabetic run, or "None".
search(part) ==
    IF \E i \in 1..Len(part) : part[i] \in Words
    THEN part[CHOOSE i \in 1..Len(part) :
                  part[i] \in Words /\ \A j \in 1..(i - 1) : part[j] \notin Words]
    ELSE "None"

\* get_syntax raises AttributeError (None.upper()) on a segment without a word.
get_syntax_raises(sql) ==
    \E i \in 1..Len(split(sql)) : search(split(sql)[i]) = "None"

get_syntax(sql) ==
    [i \in 1..Len(split(sql)) |-> Upper(search(split(sql)[i]))]

\* objs_in(syntaxes, 'INSERT', 'UPDATE', 'DELETE')
objs_in(syntaxes) ==
    \E i \in 1..Len(syntaxes) : syntaxes[i] \in {"INSERT", "UPDATE", "DELETE"}

\* str.rstrip()
RECURSIVE rstrip(_)
rstrip(s) ==
    IF Len(s) > 0 /\ s[Len(s)] = " " THEN rstrip(SubSeq(s, 1, Len(s) - 1)) ELSE s

\* Bug: any ';' makes a text multi-statement, a trailing one too.
is_multi_sql_any_semicolon(sql) == \E i \in 1..Len(sql) : sql[i] = ";"

\* ';' in sql.rstrip()[:-1]
is_multi_sql(sql) ==
    LET t == rstrip(sql)
    IN  \E i \in 1..(Len(t) - 1) : t[i] = ";"

\* The verbs of a text: the first word, upper-cased, of each ';'-separated
\* segment that has one.
SegmentVerbs(sql) ==
    {Upper(w) : w \in {search(split(sql)[i]) : i \in 1..Len(split(sql))} \ {"None"}}

\* The database applies a statement by what it says, in any letter case:
\* a text changes data when one of its statements is a writing statement.
HasEffect(sql) ==
    SegmentVerbs(sql) \cap {"INSERT", "UPDATE", "DELETE", "REPLACE"} # {}

\* What a call keeps of its SQL text: what the code computes from it (multi,
\* raises, counted) and what the text is (effect; iud: its verbs include
\* INSERT, UPDATE or DELETE; single: it is one INSERT or UPDATE statement;
\* trailing: it is one statement, a ';' and possibly blanks).
TextFacts(sql) ==
    [multi    |-> is_multi_sql(sql),
     raises   |-> get_syntax_raises(sql),
     counted  |-> objs_in(get_syntax(sql)),
     effect   |-> HasEffect(sql),
     iud      |-> SegmentVerbs(sql) \cap {"INSERT", "UPDATE", "DELETE"} # {},
     single   |-> sql \in {<<"INSERT">>, <<"update">>},
     trailing |-> LET t == rstrip(sql)
                  IN  /\ Len(t) > 1
                      /\ t[Len(t)] = ";"
                      /\ \A i \in 1..(Len(t) - 1) : t[i] # ";"
                      /\ \E i \in 1..(Len(t) - 1) : t[i] \in Words]

\* The facts of every SQL text a call may be given.
Facts == {TextFacts(sql) : sql \in SqlTexts}

NoFacts == TextFacts(<<"SELECT">>)

----------------------------------------------------------------------------
(* The session: DBConnection. *)

\* The fields the session's operations read and write, as one value;
\* issued lists the calls made on the connection and its transactions.
SessState ==
    [begin |-> begin, begin_count |-> begin_count, txOpen |-> txOpen,
     txStmts |-> txStmts, durable |-> durable, undone |-> undone,
     issued |-> <<>>]

StmtsOf(stm, t) == {q[2] : q \in {p \in stm : p[1] = t}}

\* Bug: commit() leaves the mutation counter as it is.
commit_keeps_count(s) ==
    IF s.begin # None
    THEN [s EXCEPT !.txOpen = @ \ {s.begin},
                   !.durable = @ \cup StmtsOf(s.txStmts, s.begin),
                   !.txStmts = {p \in @ : p[1] # s.begin},
                   !.issued = Append(@, "commit"),
                   !.begin = None]
    ELSE s

\* DBConnection.commit
commit(s) ==
    IF s.begin # None
    THEN [s EXCEPT !.txOpen = @ \ {s.begin},
                   !.durable = @ \cup StmtsOf(s.txStmts, s.begin),
                   !.txStmts = {p \in @ : p[1] # s.begin},
                   !.issued = Append(@, "commit"),
                   !.begin = None,
                   !.begin_count = 0]
    ELSE s

\* Bug: rollback() leaves the mutation counter as it is.
rollback_keeps_count(s) ==
    IF s.begin # None
    THEN [s EXCEPT !.txOpen = @ \ {s.begin},
                   !.undone = @ \cup StmtsOf(s.txStmts, s.begin),
                   !.txStmts = {p \in @ : p[1] # s.begin},
                   !.issued = Append(@, "rollback"),
                   !.begin = None]
    ELSE s

\* DBConnection.rollback
rollback(s) ==
    IF s.begin # None
    THEN [s EXCEPT !.txOpen = @ \ {s.begin},
                   !.undone = @ \cup StmtsOf(s.txStmts, s.begin),
                   !.txStmts = {p \in @ : p[1] # s.begin},
                   !.issued = Append(@, "rollback"),
                   !.begin = None,
                   !.begin_count = 0]
    ELSE s

\* Bug: the transaction left open is not rolled back before the next begins.
executor_begin_no_rollback(s, tx) ==
    IF s.begin_count = 0
    THEN [s EXCEPT !.begin = tx,
                   !.txOpen = @ \cup {tx},
                   !.issued = Append(@, "begin")]
    ELSE s

\* Bug: every run of the executor rolls back and begins a transaction.
executor_begin_every_run(s, tx) ==
    LET r == rollback(s)
    IN  [r EXCEPT !.begin = tx,
                  !.txOpen = @ \cup {tx},
                  !.issued = Append(@, "begin")]

\* DBConnection.executor, "Create Transaction object"; tx is the Transaction
\* that connection.begin() returns.
executor_begin(s, tx) ==
    IF s.begin_count = 0
    THEN LET r == rollback(s)
         IN  [r EXCEPT !.begin = tx,
                       !.txOpen = @ \cup {tx},
                       !.issued = Append(@, "begin")]
    ELSE s

\* DBConnection.executor, "Execute": connection.execute(sql, data) ends as
\* `out`; a statement that ran leaves its effects in the open transaction.
executor_run(s, id, f, out) ==
    IF out = "ok" /\ f.effect
    THEN [s EXCEPT !.txStmts = @ \cup {<<s.begin, id>>},
                   !.issued = Append(@, "execute")]
    ELSE [s EXCEPT !.issued = Append(@, "execute")]

\* Bug: only the first mutating statement of a transaction is counted.
executor_count_first_only(s, f) ==
    IF f.counted /\ s.begin_count = 0 THEN [s EXCEPT !.begin_count = @ + 1] ELSE s

\* DBConnection.executor, "Count".
executor_count(s, f) ==
    IF f.counted THEN [s EXCEPT !.begin_count = @ + 1] ELSE s

\* The exception one run of DBConnection.executor ends with, or "none".
executor_exc(f, out) ==
    IF out # "ok" THEN out
    ELSE IF f.raises THEN "AttributeError"
    ELSE "none"

\* Bug: a run whose statement failed is counted too.
executor_counts_failed(s, tx, id, f, out) ==
    executor_count(executor_run(executor_begin(s, tx), id, f, out), f)

\* DBConnection.executor
DBConnection_executor(s, tx, id, f, out) ==
    LET a == executor_run(executor_begin(s, tx), id, f, out)
    IN  IF executor_exc(f, out) = "none" THEN executor_count(a, f) ELSE a

----------------------------------------------------------------------------
(* The retry policy: reykit's wrap_retry(func, handler=, exception=). *)

\* The attempt ceiling of the policy.
RetryTotal == 3

\* After `attempts` attempts, the last of which raised `exc`: the handler is
\* invoked and the operation attempted again when exc is of the type
\* `exception` and the ceiling is not reached.
wrap_retry_again(exc, attempts, exception) ==
    /\ exc # "none"
    /\ exception \in {exc, "BaseException"}
    /\ attempts < RetryTotal

----------------------------------------------------------------------------
(* API calls. *)

\* How one connection.execute() ends.
Outcomes == {"ok", "OperationalError", "StatementError"}

\* The Transaction begun by attempt n of call id.
TxOf(id, n) == (id - 1) * RetryTotal + n

\* The record of an API call: what it was given (text), what it did
\* (wrapped, attempts, handled: invocations of the retry handler, first and
\* last: how its first and last connection.execute() ended, transient: all of
\* them raised OperationalError, conn: the connection handed to the executor,
\* acquired: the one taken from the pool, issued: the calls its last executor
\* run or its commit/rollback made on the connection), how it ended (status,
\* exc) and the state it started from (prev: the call before it, pre_*;
\* pre_open: the statements with effects in the transactions then open).
\* exc_type is the argument of __exit__; via is the builder
\* (execute_insert, execute_update) that made the call and data its rows.
CallRecord(api, id, f, prev, b, n, snc, stk) ==
    [api |-> api, id |-> id, text |-> f, wrapped |-> FALSE,
     attempts |-> 0, handled |-> 0, status |-> "running", exc |-> "none",
     first |-> "none", last |-> "none", transient |-> TRUE, conn |-> "none",
     acquired |-> "none", prev |-> prev, pre_begin |-> b, pre_count |-> n,
     pre_since |-> snc, pre_streak |-> stk, issued |-> <<>>,
     exc_type |-> "None", pre_open |-> {}, via |-> "none", data |-> <<>>]

NewCall(api, f) ==
    [CallRecord(api, ncalls + 1, f, call.api, begin, begin_count, since, streak)
        EXCEPT !.pre_open = {p[2] : p \in txStmts}]

\* Bug: the retry wrapper is left at catching every exception.
retry_exception_any == "BaseException"

\* DBConnection.execute: wrap_retry(..., exception=OperationalError).
DBConnection_retry_exception == "OperationalError"

\* Bug: a call is retried although statements are accumulated.
can_retry_ignores_count(multi) == retry /\ ~multi

\* Bug: a multi-statement text is retried.
can_retry_ignores_multi(multi) == retry /\ begin_count = 0

\* Bug: the retry branch is never taken.
can_retry_never(multi) == FALSE

\* DBConnection.execute, "Can retry".
DBConnection_can_retry(multi) ==
    retry /\ begin_count = 0 /\ ~multi

\* One attempt of the session's executor within call c, and what follows it:
\* the return, the raise, or the retry handler and another attempt.
DBConnection_attempt(c, out) ==
    LET s     == DBConnection_executor(SessState, TxOf(c.id, c.attempts + 1),
                                       c.id, c.text, out)
        exc   == executor_exc(c.text, out)
        again == /\ c.wrapped
                 /\ wrap_retry_again(exc, c.attempts + 1,
                                     DBConnection_retry_exception)
        ret   == exc = "none"
    IN  /\ begin' = s.begin
        /\ begin_count' = s.begin_count
        /\ txOpen' = s.txOpen
        /\ txStmts' = s.txStmts
        /\ durable' = s.durable
        /\ undone' = s.undone
        /\ call' = [c EXCEPT !.attempts = @ + 1,
                             !.handled = IF again THEN @ + 1 ELSE @,
                             !.status = IF again THEN "running"
                                        ELSE IF ret THEN "returned" ELSE "raised",
                             !.exc = IF again THEN "none" ELSE exc,
                             !.first = IF c.attempts = 0 THEN out ELSE @,
                             !.last = out,
                             !.transient = @ /\ out = "OperationalError",
                             !.conn = "session",
                             !.issued = s.issued]
        /\ pc' = IF again THEN "retry" ELSE "idle"
        /\ streak' = IF again THEN streak
                     ELSE IF ret /\ streak >= 0 /\ c.text.single
                     THEN streak + 1 ELSE -1
        /\ since' = IF ret /\ c.text.effect THEN since \cup {c.id} ELSE since

\* DBConnection.execute(sql), f being the facts of sql: the call up to the
\* end of its first attempt.
DBConnection_execute_via(via, data, f, out) ==
    /\ pc = "idle"
    /\ connection = "open"
    /\ ncalls < MaxCalls
    /\ ncalls' = ncalls + 1
    /\ DBConnection_attempt(
           [NewCall("execute", f) EXCEPT
               !.wrapped = DBConnection_can_retry(f.multi),
               !.via = via,
               !.data = data],
           out)
    /\ UNCHANGED <<retry, connection>>

DBConnection_execute(f, out) == DBConnection_execute_via("none", <<>>, f, out)

\* wrap_retry's next attempt of the call in progress.
DBConnection_retry(out) ==
    /\ pc = "retry"
    /\ DBConnection_attempt(call, out)
    /\ UNCHANGED <<retry, ncalls, connection>>

\* commit() or rollback() called on the session, s being the session after.
SessionEnd(api, s) ==
    /\ pc = "idle"
    /\ connection = "open"
    /\ ncalls < MaxCalls
    /\ ncalls' = ncalls + 1
    /\ begin' = s.begin
    /\ begin_count' = s.begin_count
    /\ txOpen' = s.txOpen
    /\ txStmts' = s.txStmts
    /\ durable' = s.durable
    /\ undone' = s.undone
    /\ call' = [NewCall(api, NoFacts) EXCEPT !.status = "returned",
                                             !.conn = "session",
                                             !.issued = s.issued]
    /\ streak' = 0
    /\ since' = {}
    /\ UNCHANGED <<retry, pc, connection>>

DBConnection_commit == SessionEnd("commit", commit(SessState))

DBConnection_rollback == SessionEnd("rollback", rollback(SessState))

\* Connection.close() of the client: a transaction still open on the
\* connection is rolled back by the client and the connection goes back to
\* the pool; closing a closed connection does nothing.
Connection_close(s) ==
    [s EXCEPT !.txOpen = {},
              !.undone = @ \cup {p[2] : p \in s.txStmts},
              !.txStmts = {},
              !.issued = Append(@, "close")]

\* Bug: close() commits the open transaction before it closes.
close_commits(s) == Connection_close(commit(s))

\* DBConnection.close (and __del__, which is close)
close(s) == Connection_close(s)

\* DBConnection.__exit__(exc_type, ...): the session after.
DBConnection_exit_state(s, exc_type) ==
    IF exc_type = "None" THEN commit(s) ELSE close(s)

\* The connection after __exit__, close() (api "close") or __del__.
ConnectionAfter(api, exc_type) ==
    IF api = "__del__" THEN "finalized"
    ELSE IF api = "close" \/ exc_type # "None" THEN "closed"
    ELSE connection

\* The end of a with-scope, close() or the finalisation of the session, s
\* being the session after.  A session that was closed is not used again,
\* except to close or finalise it.
SessionClose(api, exc_type, s) ==
    /\ pc = "idle"
    /\ connection # "finalized"
    /\ api = "__exit__" => connection = "open"
    /\ ncalls < MaxCalls
    /\ ncalls' = ncalls + 1
    /\ begin' = s.begin
    /\ begin_count' = s.begin_count
    /\ txOpen' = s.txOpen
    /\ txStmts' = s.txStmts
    /\ durable' = s.durable
    /\ undone' = s.undone
    /\ call' = [NewCall(api, NoFacts) EXCEPT !.status = "returned",
                                             !.conn = "session",
                                             !.issued = s.issued,
                                             !.exc_type = exc_type]
    /\ connection' = ConnectionAfter(api, exc_type)
    /\ streak' = IF api = "__exit__" /\ exc_type = "None" THEN 0 ELSE -1
    /\ since' = {}
    /\ UNCHANGED <<retry, pc>>

\* What a with-scope is left with: no exception, or one.
ExcTypes == {"None", "Exception"}

DBConnection_exit(exc_type) ==
    SessionClose("__exit__", exc_type, DBConnection_exit_state(SessState, exc_type))

DBConnection_close == SessionClose("close", "None", close(SessState))

DBConnection_del == SessionClose("__del__", "None", close(SessState))

----------------------------------------------------------------------------
(* The standalone executor: Database.execute. *)

\* The instance attributes Database.__init__ sets.
DatabaseAttrs ==
    {"username", "password", "host", "port", "database", "drivername",
     "engine", "pool_size", "max_overflow", "pool_timeout", "pool_recycle",
     "retry", "query"}

\* Database.execute, "Can retry".
Database_can_retry(multi) == retry /\ ~multi

\* The connection Database.execute hands to the executor, acquired being the
\* one engine.connect() returned: "AttributeError" when evaluating the
\* argument raises.
Database_executor_arg(multi, acquired) ==
    IF Database_can_retry(multi)
    THEN IF "connection" \in DatabaseAttrs THEN "self.connection"
         ELSE "AttributeError"
    ELSE acquired

\* Database.execute(sql), f being the facts of sql: engine.connect(), the
\* executor under connection.begin() (commit on return, rollback on an
\* exception), and the release of the connection.
Database_execute_via(via, data, f, out) ==
    LET c0   == [NewCall("db_execute", f) EXCEPT
                    !.wrapped = Database_can_retry(f.multi),
                    !.acquired = "pooled",
                    !.via = via,
                    !.data = data]
        arg  == Database_executor_arg(f.multi, "pooled")
        ran  == arg # "AttributeError"
    IN  /\ pc = "idle"
        /\ ncalls < MaxCalls
        /\ ncalls' = ncalls + 1
        /\ call' = IF ~ran
                   THEN [c0 EXCEPT !.status = "raised", !.exc = "AttributeError"]
                   ELSE [c0 EXCEPT !.attempts = 1,
                                   !.first = out,
                                   !.last = out,
                                   !.transient = out = "OperationalError",
                                   !.conn = arg,
                                   !.status = IF out = "ok" THEN "returned"
                                              ELSE "raised",
                                   !.exc = IF out = "ok" THEN "none" ELSE out,
                                   !.issued = <<"begin", "execute",
                                                IF out = "ok" THEN "commit"
                                                ELSE "rollback">>]
        /\ durable' = IF ran /\ out = "ok" /\ f.effect
                      THEN durable \cup {ncalls + 1} ELSE durable
        /\ UNCHANGED <<retry, begin, begin_count, txOpen, txStmts, undone,
                       pc, streak, since, connection>>

Database_execute(f, out) == Database_execute_via("none", <<>>, f, out)

----------------------------------------------------------------------------
(* The row builders: execute_insert and execute_update, of Database and,   *)
(* inherited, of DBConnection.  The path is one extract_path accepts.      *)

\* What Table(data).to_table() returns: a list of rows, a row being kept as
\* the set of its keys.
RowKeys == {"key"}

DataTables == UNION {[1..k -> SUBSET RowKeys] : k \in 0..MaxDataRows}

\* Bug: only the empty list is rejected.
data_is_empty_list_only(data) == data = <<>>

\* "Check": data in ([], [{}])
data_is_empty(data) == data \in {<<>>, <<{}>>}

\* execute_update with where_fields left None, past the check: the exception
\* generating the SQL raises, or "none".  The first row without a key leaves
\* where_fields None (TypeError in `for field in where_fields`); a later one
\* has no value for the first row's key (KeyError).
execute_update_raises(data) ==
    IF \A i \in 1..Len(data) : data[i] # {} THEN "none"
    ELSE IF data[1] = {} THEN "TypeError"
    ELSE "KeyError"

\* The text execute_insert generates: one INSERT statement.
execute_insert_sql(data) == <<"INSERT">>

\* Bug: only the first row is turned into a statement.
execute_update_sql_first_row(data) == <<"update">>

\* The text execute_update generates: one UPDATE statement per row, joined
\* with ';\n' (letter case aside).
RECURSIVE execute_update_sql(_)
execute_update_sql(data) ==
    IF Len(data) <= 1 THEN <<"update">>
    ELSE <<"update", ";", " ">> \o execute_update_sql(Tail(data))

Builders == {"execute_insert", "execute_update"}

\* The exception a builder raises before it calls execute(), or "none".
builder_raises(api, data) ==
    IF data_is_empty(data) THEN "ValueError"
    ELSE IF api = "execute_update" THEN execute_update_raises(data)
    ELSE "none"

builder_sql(api, data) ==
    IF api = "execute_insert" THEN execute_insert_sql(data)
    ELSE execute_update_sql(data)

\* A builder that raised before calling execute(): nothing else happened.
BuilderRaised(api, data) ==
    /\ pc = "idle"
    /\ ncalls < MaxCalls
    /\ ncalls' = ncalls + 1
    /\ call' = [NewCall(api, NoFacts) EXCEPT !.status = "raised",
                                             !.exc = builder_raises(api, data),
                                             !.via = api,
                                             !.data = data]
    /\ streak' = -1
    /\ UNCHANGED <<retry, begin, begin_count, txOpen, txStmts, durable,
                   undone, pc, since, connection>>

\* DBConnection.execute_insert / execute_update (self.execute is the
\* session's).
DBConnection_builder(api, data, out) ==
    IF builder_raises(api, data) # "none"
    THEN connection = "open" /\ BuilderRaised(api, data)
    ELSE DBConnection_execute_via(api, data, TextFacts(builder_sql(api, data)), out)

\* Database.execute_insert / execute_update (self.execute is the standalone
\* one).
Database_builder(api, data, out) ==
    IF builder_raises(api, data) # "none"
    THEN BuilderRaised(api, data)
    ELSE Database_execute_via(api, data, TextFacts(builder_sql(api, data)), out)

----------------------------------------------------------------------------

\* A new session (DBConnection.__init__) of a database with or without the
\* retry policy.
SessionInit ==
    /\ retry \in BOOLEAN
    /\ begin = None
    /\ begin_count = 0
    /\ txOpen = {}
    /\ txStmts = {}
    /\ durable = {}
    /\ undone = {}
    /\ pc = "idle"
    /\ ncalls = 0
    /\ streak = 0
    /\ since = {}
    /\ call = [CallRecord("none", 0, NoFacts, "none", None, 0, {}, 0)
                   EXCEPT !.status = "returned"]
    /\ connection = "open"

Init ==
    /\ SessionInit
    /\ thr = <<>>
    /\ pool = {}
    /\ fn = <<>>

\* The session and Database.execute leave the other parts as they are.
Rest == UNCHANGED <<thr, pool, fn>>

Next ==
    \/ \E f \in Facts, out \in Outcomes : DBConnection_execute(f, out) /\ Rest
    \/ \E out \in Outcomes : DBConnection_retry(out) /\ Rest
    \/ DBConnection_commit /\ Rest
    \/ DBConnection_rollback /\ Rest
    \/ \E f \in Facts, out \in Outcomes : Database_execute(f, out) /\ Rest
    \/ \E exc_type \in ExcTypes : DBConnection_exit(exc_type) /\ Rest
    \/ DBConnection_close /\ Rest
    \/ DBConnection_del /\ Rest

Spec == Init /\ [][Next]_vars

\* The session and the database used through the row builders.
NextBuilder ==
    \/ \E api \in Builders, data \in DataTables, out \in Outcomes :
           DBConnection_builder(api, data, out) /\ Rest
    \/ \E api \in Builders, data \in DataTables, out \in Outcomes :
           Database_builder(api, data, out) /\ Rest
    \/ \E out \in Outcomes : DBConnection_retry(out) /\ Rest
    \/ DBConnection_commit /\ Rest

SpecBuilder == Init /\ [][NextBuilder]_vars

----------------------------------------------------------------------------
(* Database.execute step by step, called by several threads on one         *)
(* Database: each call takes a connection of the engine's pool.            *)

Threads == {1, 2}

\* The connections of the pool: enough for every thread.
Conns == {"c1", "c2"}

\* A thread that has made no call yet.  Of a call the thread keeps what
\* execute() reads of its text (multi), the connection it acquired (conn),
\* its transaction (tx: "none", "open", "committed", "rolledback"), the
\* exception in flight (exc) and how it ended (status).
ThreadIdle ==
    [pc |-> "idle", multi |-> FALSE, conn |-> "none", tx |-> "none",
     exc |-> "none", status |-> "none"]

\* Bug: the engine hands out a connection that is checked out.
connectable_any == Conns

\* The connections engine.connect() can return: those in the pool.
connectable == Conns \ pool

\* `with self.engine.connect() as connection`, entered.
Db_connect(t, f) ==
    /\ thr[t].pc = "idle"
    /\ \E c \in connectable :
           /\ pool' = pool \cup {c}
           /\ thr' = [thr EXCEPT ![t] =
                         [ThreadIdle EXCEPT !.pc = "connected",
                                            !.multi = f.multi,
                                            !.conn = c,
                                            !.status = "running"]]
    /\ UNCHANGED <<retry, sessvars, fn>>

\* "Can retry" / "Cannot retry": the executor's argument is evaluated and the
\* executor enters `with connection.begin()`.
Db_executor(t) ==
    /\ thr[t].pc = "connected"
    /\ thr' = [thr EXCEPT ![t] =
                  IF Database_executor_arg(@.multi, @.conn) = "AttributeError"
                  THEN [@ EXCEPT !.pc = "leaving", !.exc = "AttributeError"]
                  ELSE [@ EXCEPT !.pc = "begun", !.tx = "open"]]
    /\ UNCHANGED <<retry, sessvars, pool, fn>>

\* connection.execute(sql, data)
Db_run(t, out) ==
    /\ thr[t].pc = "begun"
    /\ thr' = [thr EXCEPT ![t] =
                  [@ EXCEPT !.pc = "ran",
                            !.exc = IF out = "ok" THEN "none" ELSE out]]
    /\ UNCHANGED <<retry, sessvars, pool, fn>>

\* Bug: the transaction is committed however the block is left.
begin_exit_commits(exc) == "committed"

\* The end of `with connection.begin()`: commit, or rollback when an
\* exception leaves the block.
begin_exit(exc) == IF exc = "none" THEN "committed" ELSE "rolledback"

Db_end(t) ==
    /\ thr[t].pc = "ran"
    /\ thr' = [thr EXCEPT ![t] =
                  [@ EXCEPT !.pc = "leaving", !.tx = begin_exit(thr[t].exc)]]
    /\ UNCHANGED <<retry, sessvars, pool, fn>>

\* The end of `with self.engine.connect() as connection`: the connection goes
\* back to the pool, and execute() returns or the exception propagates.
Db_release(t) ==
    /\ thr[t].pc = "leaving"
    /\ pool' = pool \ {thr[t].conn}
    /\ thr' = [thr EXCEPT ![t] =
                  [@ EXCEPT !.pc = "idle",
                            !.status = IF thr[t].exc = "none" THEN "returned"
                                       ELSE "raised"]]
    /\ UNCHANGED <<retry, sessvars, fn>>

InitDb ==
    /\ SessionInit
    /\ thr = [t \in Threads |-> ThreadIdle]
    /\ pool = {}
    /\ fn = <<>>

NextDb ==
    \/ \E t \in Threads, f \in Facts : Db_connect(t, f)
    \/ \E t \in Threads : Db_executor(t)
    \/ \E t \in Threads, out \in Outcomes : Db_run(t, out)
    \/ \E t \in Threads : Db_end(t)
    \/ \E t \in Threads : Db_release(t)

SpecDb == InitDb /\ [][NextDb]_vars

\* The steps of the call of thread t once it holds a connection.
Db_step(t) ==
    \/ Db_executor(t)
    \/ \E out \in Outcomes : Db_run(t, out)
    \/ Db_end(t)
    \/ Db_release(t)

\* Every thread in a call goes on running, and the client's calls return.
SpecDbLive == SpecDb /\ \A t \in Threads : WF_vars(Db_step(t))

----------------------------------------------------------------------------
(* Placeholders of a SQL text: the two findall() calls of handle_data.     *)
(* Here a text is a sequence of characters.                                *)

\* The characters of a text: the colon, the backslash, two letters (one
\* upper, one lower case), the blank and one other character.
Chars == {":", "\\", "I", "n", " ", "="}

\* \w and \s among Chars, and the classes [iI] and [nN].
WordChars == {"I", "n"}

Blanks == {" "}

ClassI == {"i", "I"}

ClassN == {"n", "N"}

PTexts == UNION {[1..k -> Chars] : k \in 0..MaxTextLen}

\* The end of a greedy run: the first index from i on whose character is not
\* in class (Len(s) + 1 when there is none).
RECURSIVE run(_, _, _)
run(s, i, class) ==
    IF i <= Len(s) /\ s[i] \in class THEN run(s, i + 1, class) ELSE i

\* (?<!\\) at index i: the character before is not a backslash.
not_escaped(s, i) == i = 1 \/ s[i - 1] # "\\"

\* findall('(?<!\\\\):(\\w+)', sql) from index i on: the group of every
\* match, left to right, matches not overlapping.
RECURSIVE findall_keys(_, _)
findall_keys(s, i) ==
    IF i > Len(s) THEN <<>>
    ELSE IF /\ s[i] = ":"
            /\ not_escaped(s, i)
            /\ i + 1 <= Len(s)
            /\ s[i + 1] \in WordChars
         THEN LET e == run(s, i + 1, WordChars)
              IN  <<SubSeq(s, i + 1, e - 1)>> \o findall_keys(s, e)
         ELSE findall_keys(s, i + 1)

\* Bug: the blanks between IN and the colon are optional (\s*).
in_match_optional_blank(s, i) ==
    IF /\ i + 2 <= Len(s)
       /\ s[i] \in ClassI
       /\ s[i + 1] \in ClassN
    THEN LET j == run(s, i + 2, Blanks)
         IN  IF /\ j + 1 <= Len(s)
                /\ s[j] = ":"
                /\ not_escaped(s, j)
                /\ s[j + 1] \in WordChars
             THEN j ELSE 0
    ELSE 0

\* The pattern '[iI][nN]\\s+(?<!\\\\):(\\w+)' matches at index i: the index
\* of its colon, or 0.
in_match(s, i) ==
    IF /\ i + 3 <= Len(s)
       /\ s[i] \in ClassI
       /\ s[i + 1] \in ClassN
       /\ s[i + 2] \in Blanks
    THEN LET j == run(s, i + 2, Blanks)
         IN  IF /\ j + 1 <= Len(s)
                /\ s[j] = ":"
                /\ not_escaped(s, j)
                /\ s[j + 1] \in WordChars
             THEN j ELSE 0
    ELSE 0

\* findall('[iI][nN]\\s+(?<!\\\\):(\\w+)', sql) from index i on.
RECURSIVE findall_keys_in(_, _)
findall_keys_in(s, i) ==
    IF i > Len(s) THEN <<>>
    ELSE LET j == in_match(s, i)
         IN  IF j # 0
             THEN LET e == run(s, j + 1, WordChars)
                  IN  <<SubSeq(s, j + 1, e - 1)>> \o findall_keys_in(s, e)
             ELSE findall_keys_in(s, i + 1)

\* handle_data, "Extract keys" and "Extract keys of syntax in".
sql_keys(sql) == findall_keys(sql, 1)

sql_keys_in(sql) == findall_keys_in(sql, 1)

\* The elements of a list.
Range(q) == {q[i] : i \in 1..Len(q)}

\* A text is given; its placeholders are extracted, and extracted again.
InitText ==
    /\ SessionInit
    /\ thr = <<>>
    /\ pool = {}
    /\ fn \in {[stage |-> "given", sql |-> t, sql_keys |-> <<>>,
                sql_keys_in |-> <<>>, again |-> <<>>, again_in |-> <<>>] :
               t \in PTexts}

Extract ==
    /\ fn.stage = "given"
    /\ fn' = [fn EXCEPT !.stage = "extracted",
                        !.sql_keys = sql_keys(fn.sql),
                        !.sql_keys_in = sql_keys_in(fn.sql)]
    /\ UNCHANGED <<retry, sessvars, thr, pool>>

ExtractAgain ==
    /\ fn.stage = "extracted"
    /\ fn' = [fn EXCEPT !.stage = "again",
                        !.again = sql_keys(fn.sql),
                        !.again_in = sql_keys_in(fn.sql)]
    /\ UNCHANGED <<retry, sessvars, thr, pool>>

NextText == Extract \/ ExtractAgain

SpecText == InitText /\ [][NextText]_vars

----------------------------------------------------------------------------
(* The rows of handle_data.  A row is a function from keys (names) to      *)
(* values; a value is kept as its Python literal.                          *)

\* E.ONE is an enum member whose value is 1, E.LIST one whose value is [1].
Values ==
    {"None", "0", "1", "[]", "()", "{}", "[1]", "(1,)", "{'a': 1}",
     "E.ONE", "E.LIST"}

\* not bool(value)
falsy(value) == value \in {"None", "0", "[]", "()", "{}"}

\* is_iterable(value)
is_iterable(value) == value \in {"[]", "()", "{}", "[1]", "(1,)", "{'a': 1}"}

\* type(value) in (list, dict)
is_list_or_dict(value) == value \in {"[]", "{}", "[1]", "{'a': 1}"}

\* isinstance(type(value), EnumType)
is_enum(value) == value \in {"E.ONE", "E.LIST"}

\* value.value of an enum member
enum_value(value) == IF value = "E.ONE" THEN "1" ELSE "[1]"

\* to_json(value): the JSON text, a str
to_json(value) ==
    CASE value = "[1]" -> "'[1]'"
      [] value = "{'a': 1}" -> "'{\"a\": 1}'"
      [] value = "[]" -> "'[]'"
      [] value = "{}" -> "'{}'"
      [] OTHER -> value

\* "Fill", "Convert", "Enum": the value one pass of the loop stores, key_in
\* being `key in sql_keys_in`.
handle_value(value, key_in) ==
    IF falsy(value) /\ is_iterable(value) THEN "None"
    ELSE IF is_list_or_dict(value) /\ ~key_in THEN to_json(value)
    ELSE IF is_enum(value) THEN enum_value(value)
    ELSE value

\* row.get(key)
row_get(row, key) == IF key \in DOMAIN row THEN row[key] ELSE "None"

\* row[key] = value
row_set(row, key, value) ==
    [k \in DOMAIN row \cup {key} |-> IF k = key THEN value ELSE row[k]]

\* `for key in sql_keys`, from the i-th key on.
RECURSIVE handle_keys(_, _, _, _)
handle_keys(row, keys, keys_in, i) ==
    IF i > Len(keys) THEN row
    ELSE LET key   == keys[i]
             value == handle_value(row_get(row, key), key \in Range(keys_in))
         IN  handle_keys(row_set(row, key, value), keys, keys_in, i + 1)

\* The body of `for row in data`.
handle_row(row, keys, keys_in) ==
    IF DOMAIN row = {} THEN row ELSE handle_keys(row, keys, keys_in, 1)

\* handle_data, "Loop", with the keys extracted from the text.
handle_rows(data, keys, keys_in) ==
    [i \in 1..Len(data) |-> handle_row(data[i], keys, keys_in)]

\* Database.handle_data
handle_data(data, sql) == handle_rows(data, sql_keys(sql), sql_keys_in(sql))

\* What handle_data reads of a text, for every text.
KeyFacts ==
    {[sql_keys |-> sql_keys(t), sql_keys_in |-> sql_keys_in(t)] : t \in PTexts}

\* The keys of the rows given: one name that texts use as a placeholder.
RowNames == {<<"n">>}

Rows == UNION {[d -> Values] : d \in SUBSET RowNames}

HandleTables == UNION {[1..k -> Rows] : k \in 0..MaxDataRows}

\* handle_data is given rows and a text, and returns the rows.
InitHandle ==
    /\ SessionInit
    /\ thr = <<>>
    /\ pool = {}
    /\ fn \in {[stage |-> "given", sql_keys |-> kf.sql_keys,
                sql_keys_in |-> kf.sql_keys_in, data |-> d, handled |-> <<>>] :
               kf \in KeyFacts, d \in HandleTables}

HandleData ==
    /\ fn.stage = "given"
    /\ fn' = [fn EXCEPT !.stage = "handled",
                        !.handled = handle_rows(fn.data, fn.sql_keys,
                                                fn.sql_keys_in)]
    /\ UNCHANGED <<retry, sessvars, thr, pool>>

NextHandle == HandleData

SpecHandle == InitHandle /\ [][NextHandle]_vars

----------------------------------------------------------------------------
(* The parameter rows of execute(): "Handle parameter", the same in        *)
(* DBConnection.execute and Database.execute.                              *)

ParamNames == {"a", "b"}

ParamValues == {"x", "y"}

\* dict: kwdata, or a row of data
ParamRows == UNION {[d -> ParamValues] : d \in SUBSET ParamNames}

\* data, when it is not None: a list of rows
ParamTables == UNION {[1..k -> ParamRows] : k \in 0..MaxDataRows}

\* Table(data).to_table() of a list of rows: a list of the rows
to_table(data) == [i \in 1..Len(data) |-> data[i]]

\* Bug: the row's own value is kept on a key collision.
update_keeps_row(row, kwdata) ==
    [k \in DOMAIN row \cup DOMAIN kwdata |->
        IF k \in DOMAIN row THEN row[k] ELSE kwdata[k]]

\* row.update(kwdata)
update(row, kwdata) ==
    [k \in DOMAIN row \cup DOMAIN kwdata |->
        IF k \in DOMAIN kwdata THEN kwdata[k] ELSE row[k]]

\* execute, "Handle parameter": the rows built from data (is_none: data is
\* None) and kwdata.
execute_data(is_none, data, kwdata) ==
    IF is_none
    THEN IF DOMAIN kwdata = {} THEN <<>> ELSE <<kwdata>>
    ELSE [i \in 1..Len(to_table(data)) |-> update(to_table(data)[i], kwdata)]

\* execute() is given data (or None) and keyword parameters.
InitParams ==
    /\ SessionInit
    /\ thr = <<>>
    /\ pool = {}
    /\ fn \in {[stage |-> "given", is_none |-> FALSE, data |-> d,
                kwdata |-> kw, rows |-> <<>>] :
               d \in ParamTables, kw \in ParamRows}
           \cup {[stage |-> "given", is_none |-> TRUE, data |-> <<>>,
                  kwdata |-> kw, rows |-> <<>>] : kw \in ParamRows}

BuildRows ==
    /\ fn.stage = "given"
    /\ fn' = [fn EXCEPT !.stage = "built",
                        !.rows = execute_data(fn.is_none, fn.data, fn.kwdata)]
    /\ UNCHANGED <<retry, sessvars, thr, pool>>

NextParams == BuildRows

SpecParams == InitParams /\ [][NextParams]_vars

----------------------------------------------------------------------------
(* is_multi_sql and get_syntax as functions of the text.                   *)

\* A text is given; is_multi_sql judges it, then get_syntax classifies it
\* (syntax_exc: the exception get_syntax raises, or "none").
InitSyntax ==
    /\ SessionInit
    /\ thr = <<>>
    /\ pool = {}
    /\ fn \in {[stage |-> "given", sql |-> t, multi |-> FALSE,
                syntax |-> <<>>, syntax_exc |-> "none"] : t \in SqlTexts}

Judge ==
    /\ fn.stage = "given"
    /\ fn' = [fn EXCEPT !.stage = "judged", !.multi = is_multi_sql(fn.sql)]
    /\ UNCHANGED <<retry, sessvars, thr, pool>>

Classify ==
    /\ fn.stage = "judged"
    /\ fn' = IF get_syntax_raises(fn.sql)
             THEN [fn EXCEPT !.stage = "classified",
                             !.syntax_exc = "AttributeError"]
             ELSE [fn EXCEPT !.stage = "classified",
                             !.syntax = get_syntax(fn.sql)]
    /\ UNCHANGED <<retry, sessvars, thr, pool>>

NextSyntax == Judge \/ Classify

SpecSyntax == InitSyntax /\ [][NextSyntax]_vars

-----------------------------------------------------------------------------
(* extract_path as a function of the path.                                 *)

MaxPathLen == 3

\* The characters of a path given as a string, and the names of a path given
\* as a tuple; a name is a sequence of characters, None a sequence of its own.
Backtick == "bq"
PathChars == {"d", "t", ".", Backtick}
NoName == <<"None">>
PathStrs == UNION {[1..n -> PathChars] : n \in 0..MaxPathLen}
PathNames == {NoName, <<"d">>, <<"t">>}
PathTuples == UNION {[1..n -> PathNames] : n \in 2..3}
Mains == {"table", "database", "other"}
Backends == {"mysql", "sqlite"}
DefaultDatabases == {NoName, <<"m">>}

\* path.replace(backtick, '')
RECURSIVE replace_backtick(_)
replace_backtick(s) ==
    IF s = <<>> THEN <<>>
    ELSE (IF Head(s) = Backtick THEN <<>> ELSE <<Head(s)>>) \o replace_backtick(Tail(s))

\* path.split('.', n)
RECURSIVE split_dot(_, _)
split_dot(s, n) ==
    IF n = 0 \/ \A i \in 1..Len(s) : s[i] # "."
    THEN <<s>>
    ELSE LET i == CHOOSE j \in 1..Len(s) :
                      s[j] = "." /\ \A k \in 1..(j - 1) : s[k] # "."
         IN  <<SubSeq(s, 1, i - 1)>> \o split_dot(SubSeq(s, i + 1, Len(s)), n - 1)

\* The closing part of extract_path: the SQLite database name and the check.
extract_path_check(names, backend) ==
    LET named == IF backend = "sqlite" THEN <<<<"m", "a", "i", "n">>>> \o Tail(names)
                 ELSE names
    IN  IF named[1] = NoName
        THEN [names |-> <<>>, exc |-> "ValueError"]
        ELSE [names |-> named, exc |-> "none"]

\* extract_path: the names returned, or the exception raised.  In the tuple
\* branch, a None database makes the code read the local `names` before any
\* assignment to it.
extract_path(kind, path, main, database, backend) ==
    IF kind = "str"
    THEN IF (\A i \in 1..Len(path) : path[i] # ".") \/ (\E i \in 1..Len(path) : path[i] = Backtick)
         THEN CASE main = "table" ->
                       extract_path_check(<<database, replace_backtick(path), NoName>>, backend)
                [] main = "database" ->
                       extract_path_check(<<replace_backtick(path), NoName, NoName>>, backend)
                [] OTHER -> [names |-> <<>>, exc |-> "ValueError"]
         ELSE LET names == split_dot(path, 2)
              IN  extract_path_check(IF Len(names) = 2 THEN Append(names, NoName) ELSE names,
                                     backend)
    ELSE LET path3 == IF Len(path) = 2 THEN Append(path, NoName) ELSE path
         IN  IF path3[1] = NoName
             THEN [names |-> <<>>, exc |-> "UnboundLocalError"]
             ELSE extract_path_check(path3, backend)

\* A path is given to a Database with a default database and a backend.
InitPath ==
    /\ SessionInit
    /\ thr = <<>>
    /\ pool = {}
    /\ \E kind \in {"str", "tuple"}, main \in Mains,
          database \in DefaultDatabases, backend \in Backends :
          \E path \in (IF kind = "str" THEN PathStrs ELSE PathTuples) :
              fn = [stage |-> "given", kind |-> kind, path |-> path, main |-> main,
                    database |-> database, backend |-> backend,
                    names |-> <<>>, exc |-> "none"]

ExtractPath ==
    /\ fn.stage = "given"
    /\ LET r == extract_path(fn.kind, fn.path, fn.main, fn.database, fn.backend)
       IN  fn' = [fn EXCEPT !.stage = "extracted", !.names = r.names, !.exc = r.exc]
    /\ UNCHANGED <<retry, sessvars, thr, pool>>

NextPath == ExtractPath

SpecPath == InitPath /\ [][NextPath]_vars

-----------------------------------------------------------------------------
(* The table-path proxy: RDBExecute.                                       *)

\* The names an attribute access can carry, the two private attributes that
\* are in the instance's __dict__, and the databases of the owner.
ProxyKeys == {"a", "b", "c"}
PrivateKeys == {"_rdatabase", "_path"}
OwnerDatabases == {"m", "w"}

\* The operations that resolve the path: __call__ (select), __add__ (insert),
\* __and__ (update), __sub__ (delete), __mul__ (copy), __contains__ (exist),
\* __len__ (count).
ProxyOps == {"__call__", "__add__", "__and__", "__sub__", "__mul__",
             "__contains__", "__len__"}

\* Bug: a name is appended to a path of two names as well.
getattr_appends_to_two(path) == Len(path) \in {0, 1, 2}

\* __getattr__, "Check parameter": len(self._path) in (0, 1).
getattr_appends(path) == Len(path) \in {0, 1}

\* __getattr__: the path after, and the exception raised or "none".
getattr(path, key) ==
    IF key \in PrivateKeys THEN [path |-> path, exc |-> "none"]
    ELSE IF ~getattr_appends(path) THEN [path |-> path, exc |-> "AssertionError"]
    ELSE [path |-> Append(path, key), exc |-> "none"]

\* _get_path: the (database, table) resolved, or the exception raised.
get_path(path, database) ==
    IF Len(path) = 1 THEN [names |-> <<database, path[1]>>, exc |-> "none"]
    ELSE IF Len(path) = 2 THEN [names |-> <<path[1], path[2]>>, exc |-> "none"]
    ELSE [names |-> <<>>, exc |-> "AssertionError"]

\* RDBExecute(rdatabase): no name held.  fn.op is the last operation, key
\* its attribute name, pre_path the path before it, names the path it handed
\* to the owner's execute_* method.
InitProxy ==
    /\ SessionInit
    /\ thr = <<>>
    /\ pool = {}
    /\ \E database \in OwnerDatabases :
          fn = [database |-> database, path |-> <<>>, op |-> "__init__",
                key |-> "none", pre_path |-> <<>>, names |-> <<>>, exc |-> "none"]

\* proxy.key
Proxy_getattr(key) ==
    /\ LET r == getattr(fn.path, key)
       IN  fn' = [fn EXCEPT !.path = r.path, !.op = "__getattr__", !.key = key,
                            !.pre_path = fn.path, !.names = <<>>, !.exc = r.exc]
    /\ UNCHANGED <<retry, sessvars, thr, pool>>

\* proxy(...), proxy + data, proxy & data, proxy - where, proxy * where,
\* where in proxy, len(proxy): self._rdatabase.execute_*(self._get_path, ...).
Proxy_operation(op) ==
    /\ LET r == get_path(fn.path, fn.database)
       IN  fn' = [fn EXCEPT !.op = op, !.key = "none", !.pre_path = fn.path,
                            !.names = r.names, !.exc = r.exc]
    /\ UNCHANGED <<retry, sessvars, thr, pool>>

NextProxy ==
    \/ \E key \in ProxyKeys \cup PrivateKeys : Proxy_getattr(key)
    \/ \E op \in ProxyOps : Proxy_operation(op)

SpecProxy == InitProxy /\ [][NextProxy]_vars

-----------------------------------------------------------------------------
(* RDBBuild.build: the four lists, the prompt and the execution.           *)

MaxTables == 2

\* The build parameters: a list is kept as the names of its objects.
DatabaseLists == {<<>>, <<"d">>}
TableLists == UNION {[1..n -> {"t", "u"}] : n \in 0..MaxTables}
ViewLists == {<<>>, <<"v">>}
StatsLists == {<<>>, <<"s">>}
BuildObjects == {"d", "t", "u", "v", "s"}

\* What the user types at the prompt.
Commands == {"y", "Y", "n", "N", "x", "yes"}

\* Bug: the answer is compared as typed.
lower_keeps_case(command) == command

\* command.lower()
lower(command) ==
    CASE command = "Y" -> "y"
      [] command = "N" -> "n"
      [] OTHER -> command

\* input_confirm_build, one round of "Check" on the answer `command`: the
\* method returns ("y"), raises AssertionError ("n") or asks again.
input_confirm_build(command) ==
    IF lower(command) = "y" THEN "return"
    ELSE IF lower(command) = "n" THEN "AssertionError"
    ELSE "reenter"

\* build(databases, tables, views, views_stats) is called on a server where
\* the objects of `exists` exist.  phase is the loop (1: databases .. 4:
\* views stats) and index the position in its list; stage is where the call
\* is: at the head of the loop ("item"), waiting for an answer ("prompt"),
\* about to execute the SQL ("execute"), or ended ("done", "stopped" by the
\* user, "failed" in the execution); executed lists the items whose SQL was
\* executed and command is the last answer to the current prompt.
InitBuild ==
    /\ SessionInit
    /\ thr = <<>>
    /\ pool = {}
    /\ \E databases \in DatabaseLists, tables \in TableLists,
          views \in ViewLists, views_stats \in StatsLists,
          exists \in SUBSET BuildObjects :
          fn = [lists |-> <<databases, tables, views, views_stats>>,
                exists |-> exists, phase |-> 1, index |-> 1, stage |-> "item",
                command |-> "none", executed |-> <<>>, exc |-> "none"]

\* The item the call is at.
build_item == fn.lists[fn.phase][fn.index]

\* RDBBuild.exist((database, name, None)) for the item the call is at.
exist == build_item \in fn.exists

\* The head of a loop: the next list when this one is exhausted, the next
\* item when this one exists, the prompt for its SQL otherwise.
Build_item ==
    /\ fn.stage = "item"
    /\ fn' = IF fn.index > Len(fn.lists[fn.phase])
             THEN IF fn.phase = 4 THEN [fn EXCEPT !.stage = "done"]
                  ELSE [fn EXCEPT !.phase = @ + 1, !.index = 1]
             ELSE IF exist THEN [fn EXCEPT !.index = @ + 1]
             ELSE [fn EXCEPT !.stage = "prompt", !.command = "none"]
    /\ UNCHANGED <<retry, sessvars, thr, pool>>

\* rinput() or input() returns `command` to input_confirm_build.
Build_input(command) ==
    /\ fn.stage = "prompt"
    /\ LET r == input_confirm_build(command)
       IN  fn' = CASE r = "return" -> [fn EXCEPT !.command = command, !.stage = "execute"]
                   [] r = "AssertionError" ->
                          [fn EXCEPT !.command = command, !.stage = "stopped",
                                     !.exc = "AssertionError"]
                   [] OTHER -> [fn EXCEPT !.command = command]
    /\ UNCHANGED <<retry, sessvars, thr, pool>>

\* self.rdatabase(sql), ending as `out`, and "Report".
Build_execute(out) ==
    /\ fn.stage = "execute"
    /\ fn' = IF out = "ok"
             THEN [fn EXCEPT !.executed = Append(@, <<fn.phase, fn.index>>),
                             !.exists = @ \cup {build_item},
                             !.index = @ + 1,
                             !.stage = "item"]
             ELSE [fn EXCEPT !.executed = Append(@, <<fn.phase, fn.index>>),
                             !.stage = "failed",
                             !.exc = out]
    /\ UNCHANGED <<retry, sessvars, thr, pool>>

NextBuild ==
    \/ Build_item
    \/ \E command \in Commands : Build_input(command)
    \/ \E out \in Outcomes : Build_execute(out)

SpecBuild == InitBuild /\ [][NextBuild]_vars

----------------------------------------------------------------------------
(* Claims. *)

\* C1: after k >= 1 returned execute() calls of one INSERT/UPDATE/DELETE
\* statement each, made on a session with no open transaction and with no
\* commit() or rollback() in between, begin_count is k and begin is open; a
\* following commit() sets begin_count to 0 and begin to None, and a
\* rollback() after that commit() changes nothing.
C1_TransactionAccumulation ==
    /\ (pc = "idle" /\ streak >= 1) => (begin_count = streak /\ begin # None)
    /\ (call.api = "commit" /\ call.pre_streak >= 1) =>
           /\ call.pre_count = call.pre_streak
           /\ call.pre_begin # None
           /\ begin_count = 0
           /\ begin = None
    /\ (call.api = "rollback" /\ call.prev = "commit") =>
           /\ call.issued = <<>>
           /\ call.pre_begin = None /\ begin = None
           /\ call.pre_count = 0 /\ begin_count = 0

\* Two INSERT/UPDATE calls returned and commit() was called.
C1_Witness ==
    /\ call.api = "commit"
    /\ call.pre_streak = 2
    /\ call.pre_count = 2
    /\ begin = None

\* C2: commit() (resp. rollback()) with an open handle issues exactly one
\* commit (resp. rollback) on it, sets begin to None and begin_count to 0, and
\* a later execute() runs as on a new session; with no open handle it issues
\* nothing and leaves begin and begin_count unchanged.
C2_CommitRollback ==
    /\ call.api \in {"commit", "rollback"} =>
           /\ pc = "idle"
           /\ call.status = "returned"
           /\ IF call.pre_begin # None
              THEN /\ call.issued = <<call.api>>
                   /\ call.pre_begin \notin txOpen
                   /\ begin = None
                   /\ begin_count = 0
              ELSE /\ call.issued = <<>>
                   /\ begin = None
                   /\ begin_count = call.pre_count
    /\ (call.api = "execute" /\ call.prev \in {"commit", "rollback"}) =>
           /\ call.pre_begin = None /\ call.pre_count = 0
           /\ call.attempts = 1 => call.issued = <<"begin", "execute">>
           /\ (call.last = "ok" /\ ~call.text.raises) => call.status = "returned"

\* rollback() was called with an open handle and two counted statements.
C2_Witness ==
    /\ call.api = "rollback"
    /\ call.pre_begin # None
    /\ call.pre_count = 2
    /\ call.issued = <<"rollback">>

\* C3: an execute() call whose statement is run by the connection raises
\* begin_count by exactly 1 when the verbs of its text include INSERT, UPDATE
\* or DELETE and leaves it unchanged otherwise, for every SQL text, a text
\* ending with one trailing ';' included.
C3_CounterPerCall ==
    (call.api = "execute" /\ pc = "idle" /\ call.last = "ok") =>
        begin_count = call.pre_count + (IF call.text.iud THEN 1 ELSE 0)

\* C4: the statements of the execute() calls that returned since the session
\* was created or last committed/rolled back by the caller are in one
\* transaction that no execute() ends: commit() makes the effects of all of
\* them durable and rollback() undoes all of them.
C4_OneTransaction ==
    /\ since \cap undone = {}
    /\ call.api = "commit" => call.pre_since \subseteq durable
    /\ call.api = "rollback" => call.pre_since \subseteq undone

\* C5: at most one transaction begun on the session's connection is not
\* ended, and it is the one begin holds; execute() begins one only after the
\* one before it is ended.  (Once the connection is closed, begin may still
\* hold the transaction that closing ended.)
C5_AtMostOneOpen ==
    /\ Cardinality(txOpen) <= 1
    /\ txOpen = IF begin = None \/ connection # "open" THEN {} ELSE {begin}
    /\ \A p \in txStmts : p[1] \in txOpen

\* A retried attempt began a transaction on a session that had one open.
C5_Witness ==
    /\ pc = "retry"
    /\ call.attempts = 2
    /\ call.pre_begin # None
    /\ call.issued = <<"rollback", "begin", "execute">>
    /\ txOpen = {begin}

\* C6 as claimed: execute() on a session wraps the executor in the retry
\* policy exactly when retry is enabled, the transaction handle is None and
\* the text is not multi-statement; otherwise the executor is invoked once
\* and a failure propagates on the first attempt.
C6_RetryEligibility_HandleNone ==
    call.api = "execute" =>
        /\ call.wrapped <=> (retry /\ call.pre_begin = None /\ ~call.text.multi)
        /\ ~call.wrapped =>
               /\ pc = "idle" /\ call.attempts = 1 /\ call.handled = 0
               /\ call.first # "ok" =>
                      (call.status = "raised" /\ call.exc = call.first)

\* C6, amended: execute() on a session wraps the executor in the retry policy
\* exactly when retry is enabled, begin_count is 0 (the handle may be open)
\* and the text is not multi-statement; otherwise the executor is invoked
\* once and a failure propagates on the first attempt.
C6_RetryEligibility ==
    call.api = "execute" =>
        /\ call.wrapped <=> (retry /\ call.pre_count = 0 /\ ~call.text.multi)
        /\ ~call.wrapped =>
               /\ pc = "idle" /\ call.attempts = 1 /\ call.handled = 0
               /\ call.first # "ok" =>
                      (call.status = "raised" /\ call.exc = call.first)

\* A call was wrapped in the retry policy on a session whose handle was open
\* with no counted statement.
C6_Witness ==
    /\ call.api = "execute"
    /\ call.pre_begin # None
    /\ call.pre_count = 0
    /\ call.wrapped

\* C7: with retry enabled or not, a text for which is_multi_sql is true is
\* attempted exactly once by the session's and by the standalone execute();
\* the retry handler is not invoked and a failure, transient or not, reaches
\* the caller after the first attempt.
C7_MultiNeverRetried ==
    (call.api \in {"execute", "db_execute"} /\ call.text.multi) =>
        /\ ~call.wrapped
        /\ pc = "idle" /\ call.attempts = 1 /\ call.handled = 0
        /\ call.first # "ok" => (call.status = "raised" /\ call.exc = call.first)

\* A multi-statement text failed with the transient failure on a session with
\* retry enabled and no counted statement.
C7_Witness ==
    /\ retry
    /\ call.api = "execute"
    /\ call.text.multi
    /\ call.pre_count = 0
    /\ call.exc = "OperationalError"
    /\ call.attempts = 1

\* C8: a retry-eligible execute() on a session whose statement raises the
\* transient failure on every attempt attempts it exactly RetryTotal times,
\* invokes the handler RetryTotal - 1 times and raises the transient failure;
\* no call makes more than RetryTotal attempts.
C8_RetryBound ==
    /\ call.attempts <= RetryTotal
    /\ call.handled < RetryTotal
    /\ (/\ call.api = "execute"
        /\ retry /\ call.pre_count = 0 /\ ~call.text.multi
        /\ call.transient) =>
           IF pc = "retry"
           THEN call.attempts < RetryTotal /\ call.handled = call.attempts
           ELSE /\ call.attempts = RetryTotal
                /\ call.handled = RetryTotal - 1
                /\ call.status = "raised"
                /\ call.exc = "OperationalError"

\* Every attempt of a wrapped call raised the transient failure and the call
\* has ended.
C8_Witness ==
    /\ pc = "idle"
    /\ call.api = "execute"
    /\ call.wrapped
    /\ call.transient
    /\ call.attempts = RetryTotal
    /\ call.exc = "OperationalError"

\* C9: an attempt that raises a statement/logic failure is the call's last:
\* the handler is not invoked for it and the failure reaches the caller as
\* it is; when the first attempt raises it, the statement is attempted exactly
\* once and the handler is never invoked. Session and standalone, retry
\* enabled or not.
C9_StatementFailureNotRetried ==
    call.api \in {"execute", "db_execute"} =>
        /\ call.last = "StatementError" =>
               /\ pc = "idle"
               /\ call.status = "raised"
               /\ call.exc = "StatementError"
               /\ call.handled = call.attempts - 1
        /\ call.first = "StatementError" =>
               (call.attempts = 1 /\ call.handled = 0)

\* A wrapped call on a session with retry enabled raised a statement failure
\* on its first attempt.
C9_Witness ==
    /\ retry
    /\ call.api = "execute"
    /\ call.wrapped
    /\ call.first = "StatementError"
    /\ call.status = "raised"

\* C10: Database.execute() with retry enabled and a single-statement text
\* runs the statement under the retry wrapper on the connection the call
\* acquired, and fails only when the statement does.
C10_StandaloneRetryPath ==
    (call.api = "db_execute" /\ retry /\ ~call.text.multi) =>
        /\ call.wrapped
        /\ call.attempts >= 1
        /\ call.conn = call.acquired
        /\ call.exc \in {"none", "OperationalError", "StatementError"}
        /\ call.last = "ok" => call.status = "returned"

\* C12: when a with-scope over a session exits because of an error while a
\* transaction is open, rollback() is called before the connection is closed:
\* afterwards begin is None, begin_count is 0 and the connection is closed.
C12_ErrorScopeExit ==
    (call.api = "__exit__" /\ call.exc_type # "None" /\ call.pre_begin # None) =>
        /\ call.issued = <<"rollback", "close">>
        /\ begin = None
        /\ begin_count = 0
        /\ connection = "closed"

\* C13: a with-scope that exits with an error, close() and the finalisation
\* of the session issue no commit: no statement of a transaction that was
\* open becomes durable, all of them are undone.
C13_NoSilentCommit ==
    (\/ call.api = "__exit__" /\ call.exc_type # "None"
     \/ call.api \in {"close", "__del__"}) =>
        /\ \A i \in 1..Len(call.issued) : call.issued[i] # "commit"
        /\ call.pre_open \cap durable = {}
        /\ call.pre_open \subseteq undone
        /\ txOpen = {}

\* A with-scope exited with an error while a transaction with a statement's
\* effects was open.
C13_Witness ==
    /\ call.api = "__exit__"
    /\ call.exc_type = "Exception"
    /\ call.pre_begin # None
    /\ call.pre_open # {}
    /\ connection = "closed"

\* C14: when a with-scope over a session exits with no error, an open
\* transaction is committed and then the connection is closed: after the
\* scope the session holds no open transaction and no checked-out connection.
C14_CleanScopeExit ==
    (call.api = "__exit__" /\ call.exc_type = "None") =>
        /\ call.issued = IF call.pre_begin # None THEN <<"commit", "close">>
                          ELSE <<"close">>
        /\ begin = None
        /\ txOpen = {}
        /\ connection # "open"

\* C15: execute_insert and execute_update given [] or [{}] raise ValueError
\* before execute() is called: no connection is acquired, nothing is issued
\* on the session's connection, no statement is attempted, and begin and
\* begin_count are as before.
C15_EmptyRowRejection ==
    (call.via \in Builders /\ call.data \in {<<>>, <<{}>>}) =>
        /\ call.api = call.via
        /\ call.status = "raised"
        /\ call.exc = "ValueError"
        /\ call.attempts = 0
        /\ call.issued = <<>>
        /\ call.acquired = "none"
        /\ call.conn = "none"
        /\ begin = call.pre_begin
        /\ begin_count = call.pre_count
        /\ pc = "idle"

\* execute_update was given [{}] on a session with an open transaction and a
\* counted statement.
C15_Witness ==
    /\ call.api = "execute_update"
    /\ call.data = <<{}>>
    /\ call.exc = "ValueError"
    /\ call.pre_begin # None
    /\ begin_count = 1

\* C11: whenever Database.execute() has returned or raised, the connection
\* it acquired is back in the pool (the connections checked out are those of
\* the calls in progress) and the transaction it began is not open: it is
\* committed if and only if the call returned, and rolled back when it raised.
C11_StandaloneScoping ==
    /\ pool = {thr[t].conn : t \in {u \in Threads : thr[u].pc # "idle"}}
    /\ \A t \in Threads :
           (thr[t].pc = "idle" /\ thr[t].status # "none") =>
               /\ thr[t].tx # "open"
               /\ thr[t].tx = "committed" <=> thr[t].status = "returned"
               /\ thr[t].status = "raised" =>
                      thr[t].tx = IF thr[t].exc = "AttributeError" THEN "none"
                                  ELSE "rolledback"

\* One call returned and another raised the statement's failure; both
\* connections are back in the pool.
C11_Witness ==
    /\ thr[1].pc = "idle" /\ thr[1].status = "returned"
    /\ thr[2].pc = "idle" /\ thr[2].status = "raised"
    /\ thr[2].tx = "rolledback"
    /\ pool = {}

\* C19: the placeholders extracted from a text are the names written
\* `:name` and not `\:name` in it, each listed once, in the order of their
\* first appearance; extracting again gives the same list.
C19_PlaceholderExtraction ==
    fn.stage = "again" =>
        LET s       == fn.sql
            keys    == fn.sql_keys
            Occ(i)  == /\ s[i] = ":"
                       /\ not_escaped(s, i)
                       /\ i < Len(s)
                       /\ s[i + 1] \in WordChars
            Name(i) == SubSeq(s, i + 1, run(s, i + 1, WordChars) - 1)
            Occs    == {i \in 1..Len(s) : Occ(i)}
            First(n) == CHOOSE i \in Occs :
                            Name(i) = n /\ \A j \in Occs : Name(j) = n => i <= j
        IN  /\ Range(keys) = {Name(i) : i \in Occs}
            /\ \A i, j \in 1..Len(keys) : i # j => keys[i] # keys[j]
            /\ \A i, j \in 1..Len(keys) :
                   i < j => First(keys[i]) < First(keys[j])
            /\ fn.again = keys

C16_NoInventedKeys ==
    fn.stage = "handled" =>
        /\ Len(fn.handled) = Len(fn.data)
        /\ \A i \in 1..Len(fn.data) : DOMAIN fn.handled[i] = DOMAIN fn.data[i]

\* C17: of a row with keys, the value under a key that is a placeholder of
\* the text becomes null when it is an empty list, tuple or dict (IN-subset
\* or not); otherwise its JSON text when it is a list or dict and the key is
\* not in the IN-subset; otherwise its underlying value when it is an enum
\* member; otherwise it is unchanged.  Values under other keys and rows with
\* no key are unchanged.
C17_ValueRules ==
    fn.stage = "handled" =>
        LET Rule(v, key_in) ==
                IF v \in {"[]", "()", "{}"} THEN "None"
                ELSE IF v \in {"[1]", "{'a': 1}"} /\ ~key_in THEN to_json(v)
                ELSE IF v \in {"E.ONE", "E.LIST"} THEN enum_value(v)
                ELSE v
        IN  \A i \in 1..Len(fn.data) :
                \A k \in DOMAIN fn.data[i] :
                    /\ k \in DOMAIN fn.handled[i]
                    /\ fn.handled[i][k] =
                           IF k \in Range(fn.sql_keys)
                           THEN Rule(fn.data[i][k], k \in Range(fn.sql_keys_in))
                           ELSE fn.data[i][k]

\* C18: with data None, execute() builds no row when there are no keyword
\* parameters and the one row of the keyword parameters otherwise; with data
\* given, it builds as many rows as given, each with its own keys and those
\* of the keyword parameters, the keyword parameter's value under a key both
\* have.
C18_ParameterRows ==
    fn.stage = "built" =>
        IF fn.is_none
        THEN fn.rows = IF DOMAIN fn.kwdata = {} THEN <<>> ELSE <<fn.kwdata>>
        ELSE /\ Len(fn.rows) = Len(fn.data)
             /\ \A i \in 1..Len(fn.data) :
                    /\ DOMAIN fn.rows[i] = DOMAIN fn.data[i] \cup DOMAIN fn.kwdata
                    /\ \A k \in DOMAIN fn.kwdata : fn.rows[i][k] = fn.kwdata[k]
                    /\ \A k \in DOMAIN fn.data[i] \ DOMAIN fn.kwdata :
                           fn.rows[i][k] = fn.data[i][k]

\* Two rows were given, one of them with a key that a keyword parameter
\* has too, with another value.
C18_Witness ==
    /\ fn.stage = "built"
    /\ ~fn.is_none
    /\ Len(fn.data) = 2
    /\ "a" \in DOMAIN fn.data[1]
    /\ "a" \in DOMAIN fn.kwdata
    /\ fn.data[1]["a"] # fn.kwdata["a"]
    /\ fn.rows[1]["a"] = fn.kwdata["a"]

\* C21: is_multi_sql(sql) is true exactly when a ';' stands before the last
\* character of the text without its trailing blanks: a text with no ';' and
\* a text whose only ';' is its last character but for blanks are not
\* multi-statement, a text with a ';' between two statements is.
C21_MultiStatement ==
    fn.stage # "given" =>
        LET s    == fn.sql
            Last == IF \E i \in 1..Len(s) : s[i] # " "
                    THEN CHOOSE i \in 1..Len(s) :
                             s[i] # " " /\ \A j \in (i + 1)..Len(s) : s[j] = " "
                    ELSE 0
        IN  /\ fn.multi <=> \E i \in 1..(Last - 1) : s[i] = ";"
            /\ (\A i \in 1..Len(s) : s[i] # ";") => ~fn.multi
            /\ (\E i \in 1..(Len(s) - 2) :
                    s[i] \in Words /\ s[i + 1] = ";" /\ s[i + 2] \in Words)
                   => fn.multi

\* The text `INSERT; ` (one statement, a ';' and a blank) was judged not
\* multi-statement.
C21_Witness ==
    /\ fn.stage = "judged"
    /\ fn.sql = <<"INSERT", ";", " ">>
    /\ ~fn.multi

\* C22: get_syntax(sql) does not fail and returns, in order, the upper-cased
\* first word of each segment between ';' that is not empty; a segment that
\* is empty, as the one after a trailing ';', contributes nothing.
C22_VerbClassification ==
    fn.stage = "classified" =>
        LET segs  == split(fn.sql)
            Verbs == SelectSeq([i \in 1..Len(segs) |-> Upper(search(segs[i]))],
                               LAMBDA v : v # "None")
        IN  /\ fn.syntax_exc = "none"
            /\ fn.syntax = Verbs

C24_TablePathResolution ==
    (fn.stage = "extracted" /\ fn.main = "table" /\ fn.backend # "sqlite") =>
        LET omitted ==
                IF fn.kind = "str" THEN \A i \in 1..Len(fn.path) : fn.path[i] # "."
                ELSE fn.path[1] = NoName
            given ==
                IF fn.kind = "tuple" THEN <<fn.path[1], fn.path[2]>>
                ELSE IF omitted THEN <<NoName, replace_backtick(fn.path)>>
                ELSE LET parts == split_dot(fn.path, 2) IN <<parts[1], parts[2]>>
            resolved == <<IF omitted THEN fn.database ELSE given[1], given[2]>>
            plain == fn.kind = "tuple" \/ \A i \in 1..Len(fn.path) : fn.path[i] # Backtick
        IN  plain =>
              IF resolved[1] = NoName
              THEN fn.exc = "ValueError"
              ELSE fn.exc = "none" /\ SubSeq(fn.names, 1, 2) = resolved

C26_SessionInvariant ==
    /\ begin_count \in Nat
    /\ begin_count > 0 => begin # None
    /\ begin = None => begin_count = 0
    /\ ncalls = 0 => (begin = None /\ begin_count = 0)

\* After two counted statements and an execute() call that raised, the
\* session holds its transaction and the count of two.
C26_Witness ==
    /\ call.api = "execute"
    /\ call.status = "raised"
    /\ call.pre_count = 2
    /\ begin_count = 2
    /\ begin # None

\* C27: a run of the session's executor that starts with begin_count 0 rolls
\* back the transaction begin holds, if it holds one (left by a call without
\* INSERT/UPDATE/DELETE or by a failed attempt), then begins a new one, then
\* runs the statement; a run that starts with begin_count above 0 only runs
\* the statement, and begin stays what it was.  begin changes only in
\* commit(), rollback(), a with-scope's exit, and an executor run that starts
\* with begin_count 0.
C27_EntryStep ==
    /\ []((call.api = "execute" /\ call.attempts >= 1) =>
            IF call.pre_count = 0
            THEN /\ call.issued =
                        (IF call.attempts = 1 /\ call.pre_begin = None
                         THEN <<>> ELSE <<"rollback">>)
                        \o <<"begin", "execute">>
                 /\ begin = TxOf(call.id, call.attempts)
                 /\ begin # call.pre_begin
                 /\ call.pre_begin \notin txOpen
            ELSE /\ call.issued = <<"execute">>
                 /\ call.attempts = 1
                 /\ begin = call.pre_begin)
    /\ [][begin' # begin =>
              \/ call'.api \in {"commit", "rollback", "__exit__"}
              \/ call'.api = "execute" /\ begin_count = 0]_vars

\* The third attempt of a call rolled back the transaction its second attempt
\* left open, on a session that held a transaction before the call.
C27_Witness ==
    /\ call.api = "execute"
    /\ call.attempts = 3
    /\ call.pre_begin # None
    /\ call.pre_count = 0
    /\ call.issued = <<"rollback", "begin", "execute">>

\* C28: an execute() call on a session raises begin_count by at most 1,
\* however many attempts it makes; an attempt whose statement failed does not
\* raise it; a call that raised the failure of its statement leaves
\* begin_count as it was before the call and, when that was above 0, begin
\* too.
C28_CounterUnderFailure ==
    call.api = "execute" =>
        /\ begin_count \in {call.pre_count, call.pre_count + 1}
        /\ call.last # "ok" => begin_count = call.pre_count
        /\ pc = "retry" => begin_count = call.pre_count
        /\ (call.status = "raised" /\ call.exc \in {"OperationalError", "StatementError"}) =>
               /\ begin_count = call.pre_count
               /\ call.pre_count > 0 => begin = call.pre_begin

\* A call retried to the ceiling raised the transient failure of a counted
\* statement, on a session that held a transaction with nothing counted.
C28_Witness ==
    /\ call.api = "execute"
    /\ call.text.counted
    /\ call.attempts = RetryTotal
    /\ call.status = "raised"
    /\ call.exc = "OperationalError"
    /\ call.pre_begin # None
    /\ begin_count = 0

\* C29: the proxy never holds more than two names; an attribute access
\* appends its name when and only when zero or one names are held, and on a
\* proxy holding two it raises AssertionError and leaves the path as it was;
\* an operation resolves one name as (the owner's database, name) and two
\* names as (database, table), raises AssertionError with no name, and
\* leaves the path as it was.
C29_ProxyPath ==
    /\ Len(fn.path) <= 2
    /\ fn.op = "__getattr__" =>
           /\ fn.path # fn.pre_path =>
                  (Len(fn.pre_path) \in {0, 1} /\ fn.path = Append(fn.pre_path, fn.key))
           /\ (fn.key \in ProxyKeys /\ Len(fn.pre_path) \in {0, 1}) =>
                  (fn.path = Append(fn.pre_path, fn.key) /\ fn.exc = "none")
           /\ (fn.key \in ProxyKeys /\ Len(fn.pre_path) = 2) =>
                  (fn.exc = "AssertionError" /\ fn.path = fn.pre_path)
    /\ fn.op \in ProxyOps =>
           /\ fn.path = fn.pre_path
           /\ Len(fn.path) = 0 => (fn.exc = "AssertionError" /\ fn.names = <<>>)
           /\ Len(fn.path) = 1 =>
                  (fn.exc = "none" /\ fn.names = <<fn.database, fn.path[1]>>)
           /\ Len(fn.path) = 2 =>
                  (fn.exc = "none" /\ fn.names = <<fn.path[1], fn.path[2]>>)

\* A third name was asked of a proxy holding a database and a table.
C29_Witness ==
    /\ fn.op = "__getattr__"
    /\ fn.key \in ProxyKeys
    /\ Len(fn.pre_path) = 2
    /\ fn.exc = "AssertionError"

\* C30: build executes the SQL of databases, then tables, then views, then
\* stats views, each list in its order; the SQL of an item is executed only
\* when the object does not exist and after the prompt for it was answered
\* 'y' or 'Y'; an answer 'n' or 'N' raises AssertionError, and then that
\* item's SQL and every later item's SQL are not executed; any other answer
\* leaves the call at the prompt with nothing executed.
C30_ConfirmedBuild ==
    /\ [](/\ \A i, j \in 1..Len(fn.executed) :
                i < j => \/ fn.executed[i][1] < fn.executed[j][1]
                         \/ /\ fn.executed[i][1] = fn.executed[j][1]
                            /\ fn.executed[i][2] < fn.executed[j][2]
          /\ \A i \in 1..Len(fn.executed) :
                \/ fn.executed[i][1] < fn.phase
                \/ fn.executed[i][1] = fn.phase /\ fn.executed[i][2] <= fn.index
          /\ fn.stage = "stopped" =>
                /\ fn.command \in {"n", "N"}
                /\ fn.exc = "AssertionError"
                /\ <<fn.phase, fn.index>> \notin {fn.executed[i] : i \in 1..Len(fn.executed)}
                /\ ~ENABLED NextBuild)
    /\ [][fn'.executed # fn.executed =>
              /\ fn.stage = "execute"
              /\ fn.command \in {"y", "Y"}
              /\ ~exist
              /\ fn'.executed = Append(fn.executed, <<fn.phase, fn.index>>)]_vars
    /\ [][(fn.stage = "prompt" /\ fn'.command \in {"y", "Y"}) =>
              (fn'.stage = "execute" /\ fn'.executed = fn.executed)]_vars
    /\ [][(fn.stage = "prompt" /\ fn'.command \in {"n", "N"}) =>
              (fn'.stage = "stopped" /\ fn'.executed = fn.executed)]_vars
    /\ [][(fn.stage = "prompt" /\ fn'.command \notin {"y", "Y", "n", "N"}) =>
              (fn'.stage = "prompt" /\ fn'.executed = fn.executed
               /\ fn'.exists = fn.exists /\ fn'.index = fn.index)]_vars

\* The database and a table were built on 'y' and 'Y'; at the prompt for the
\* view, after another answer, the user typed 'N'.
C30_Witness ==
    /\ fn.stage = "stopped"
    /\ fn.command = "N"
    /\ fn.phase = 3
    /\ fn.executed = <<<<1, 1>>, <<2, 1>>>>
    /\ Len(fn.lists[4]) = 1

====
